---- MODULE Spec2Model ----
(***************************************************************************)
(* Model of src/main.py: the enrichment and incremental-sync script.       *)
(*                                                                         *)
(* One run of the script is: build_steam_app_dict, fetch_api, the loop     *)
(* over api_data (existence check, match_app_id, get_steam_player_count,   *)
(* session.add), session.commit.  The script may be run again on the same  *)
(* database file (NextRun).                                                *)
(*                                                                         *)
(* Python's None is the empty sequence and a present value v is <<v>>, so  *)
(* that absent and 0 stay distinct.  A dict is the sequence of its         *)
(* <<key, value>> pairs in insertion order.  An unhandled exception ends   *)
(* the process: pc = "aborted", error names the exception.                 *)
(*                                                                         *)
(* The HTTP endpoints and the fuzzy scorer (fuzz.token_sort_ratio) are the *)
(* environment: their answers are drawn from small sets.  The app-list and *)
(* catalog endpoints answer a status and a well-formed body; the catalog   *)
(* records carry id and title, the other columns are copied unread.        *)
(***************************************************************************)
EXTENDS Integers, Sequences, FiniteSets, TLC

\* ------------------------------------------------------------- bounds
\* Longest storefront app list returned by the app-list endpoint.
MaxApps == 2
\* Longest catalog returned by the catalog endpoint.
MaxCatalog == 2
\* Number of times the script is run on the same database.
MaxRuns == 2

\* ------------------------------------------------------ input domains
\* Catalog records: id 1 under two titles, and a second id.  "X" lower-cases
\* to the storefront name "x"; "z" is no storefront name.
Games == {[id |-> 1, title |-> "X"], [id |-> 1, title |-> "z"], [id |-> 2, title |-> "X"]}
Titles == {g.title : g \in Games}
\* Storefront apps: "X" and "x" normalise to the same name; one id is 0.
Apps == {[name |-> "X", appid |-> 0], [name |-> "x", appid |-> 7], [name |-> "y", appid |-> 7]}
AppNames == {a.name : a \in Apps}
Counts == {1500}
\* Scores fuzz.token_sort_ratio may give (0..100), and thresholds tried.
ScoreVals == {40, 89, 90}
Thresholds == {90, 100}
Statuses == {200, 500}

SeqsUpTo(S, n) == UNION {[1..k -> S] : k \in 0..n}

None == <<>>
Some(v) == <<v>>

\* str.lower() on the strings of the model.
lower(s) == CASE s = "X" -> "x" [] s = "Y" -> "y" [] s = "Z" -> "z" [] OTHER -> s
LowerNames == {lower(n) : n \in AppNames}


\* Player-count endpoint answers: a status and what the body decodes to.
\*   "count"      {"response": {"player_count": n}}
\*   "nofield"    {"response": {...}} without player_count
\*   "noresponse" a JSON object without "response"
\*   "malformed"  not JSON
Responses ==
    [status : {200}, body : {"count"}, count : Counts]
    \cup [status : Statuses, body : {"nofield"}, count : {0}]
    \cup [status : {200}, body : {"noresponse"}, count : {0}]
    \cup [status : {500}, body : {"malformed"}, count : {0}]

VARIABLES
    pc,             \* position of the script
    runs,           \* number of the current run
    steam_app_dict, \* line 85
    indexStatus,    \* status the app-list endpoint answered (0: not yet asked)
    catalogStatus,  \* status the catalog endpoint answered (0: not yet asked)
    api_data,       \* line 86-88
    index,          \* loop position, line 91
    pending,        \* rows added to the session, not committed
    db,             \* committed rows of table "games"
    error,          \* the exception that ended the run, "" if none
    dbAtStart,      \* history: db when the run started
    last,           \* history: what the latest loop iteration of the run did
    resolveCalls,   \* history: calls of match_app_id in the run
    requests,       \* history: player-count requests sent in the run
    prevCatalog,    \* history: api_data of the previous run, if it committed
    prevCommitted,  \* history: the previous run committed
    r_name, r_threshold, r_score, r_result, r_pc  \* match_app_id on its own

vars == <<pc, runs, steam_app_dict, indexStatus, catalogStatus, api_data, index,
          pending, db, error, dbAtStart, last, resolveCalls, requests,
          prevCatalog, prevCommitted,
          r_name, r_threshold, r_score, r_result, r_pc>>

syncVars == <<pc, runs, indexStatus, catalogStatus, api_data, index,
              pending, db, error, dbAtStart, last, resolveCalls, requests,
              prevCatalog, prevCommitted>>
resolveVars == <<r_name, r_threshold, r_score, r_result, r_pc>>

\* ------------------------------------------------------------- dicts
HasKey(d, k) == \E j \in DOMAIN d : d[j][1] = k
Get(d, k) == d[CHOOSE j \in DOMAIN d : d[j][1] = k][2]
Keys(d) == [j \in DOMAIN d |-> d[j][1]]
KeySet(d) == {d[j][1] : j \in DOMAIN d}
\* d[k] = v: an existing key keeps its place, a new key goes last.
DictPut(d, k, v) ==
    IF HasKey(d, k)
    THEN [j \in DOMAIN d |-> IF d[j][1] = k THEN <<k, v>> ELSE d[j]]
    ELSE Append(d, <<k, v>>)

\* {app['name'].lower(): app['appid'] for app in app_list}
AppDict(app_list) ==
    LET F[n \in 0..Len(app_list)] ==
            IF n = 0 THEN <<>>
            ELSE DictPut(F[n - 1], lower(app_list[n].name), app_list[n].appid)
    IN F[Len(app_list)]

build_steam_app_dict(status, app_list) ==
    IF status = 200 THEN AppDict(app_list) ELSE <<>>

\* ------------------------------------------------------ match_app_id
\* process.extractOne(query, choices, scorer): None for no choices, else the
\* first choice of maximal score with its score.  scorer[c] is the score
\* fuzz.token_sort_ratio gives choice c against the query.
extractOne(choices, scorer) ==
    IF Len(choices) = 0 THEN None
    ELSE LET best[n \in 1..Len(choices)] ==
                 IF n = 1 THEN 1
                 ELSE IF scorer[choices[n]] > scorer[choices[best[n - 1]]]
                      THEN n ELSE best[n - 1]
             b == best[Len(choices)]
         IN Some(<<choices[b], scorer[choices[b]]>>)

\* Mutant: the exact lookup is left out.
ExactHit_never(name_lower, app_dict) == FALSE

\* if name_lower in app_dict
ExactHit(name_lower, app_dict) == HasKey(app_dict, name_lower)

\* Mutant: a strict comparison.
MeetsThreshold_strict(score, threshold) == score > threshold

\* if score >= threshold
MeetsThreshold(score, threshold) == score >= threshold

\* The result: raised names the exception ("" if none), value the return
\* value, scored whether extractOne was called.
match_app_id(name, app_dict, threshold, scorer) ==
    LET name_lower == lower(name) IN
    IF ExactHit(name_lower, app_dict)
    THEN [raised |-> "", value |-> Some(Get(app_dict, name_lower)), scored |-> FALSE]
    ELSE LET one == extractOne(Keys(app_dict), scorer) IN
         IF one = None
         THEN \* match, score = None  (fuzzywuzzy before 0.17 raises
              \* RuntimeError inside extractOne instead: the run ends either way)
              [raised |-> "TypeError", value |-> None, scored |-> TRUE]
         ELSE IF MeetsThreshold(one[1][2], threshold)
              THEN [raised |-> "", value |-> Some(Get(app_dict, one[1][1])), scored |-> TRUE]
              ELSE [raised |-> "", value |-> None, scored |-> TRUE]

\* threshold=90, line 50
DefaultThreshold == 90

\* -------------------------------------------- get_steam_player_count
\* requested: whether requests.get(url) was called.
get_steam_player_count(app_id, resp) ==
    IF app_id = None
    THEN [raised |-> "", value |-> None, requested |-> FALSE]
    ELSE IF resp.body = "malformed"
    THEN \* response.json()
         [raised |-> "JSONDecodeError", value |-> None, requested |-> TRUE]
    ELSE IF resp.body = "noresponse"
    THEN \* data['response']
         [raised |-> "KeyError", value |-> None, requested |-> TRUE]
    ELSE IF resp.body = "count"
    THEN [raised |-> "", value |-> Some(resp.count), requested |-> TRUE]
    ELSE [raised |-> "", value |-> None, requested |-> TRUE]

\* ---------------------------------------------------------- fetch_api
\* Mutant: the status is not looked at.
fetch_api_any_status(status, data) == Some(data)

fetch_api(status, data) == IF status = 200 THEN Some(data) ELSE None

\* ------------------------------------------------------ the sync loop
\* Mutant: the query sees the committed rows only (no autoflush).
existing_game_committed_only(id, committed, staged) == \E r \in committed : r.id = id

\* Mutant: the existence check is left out.
existing_game_never(id, committed, staged) == FALSE

\* session.query(Game).filter_by(id=...).first(): the query autoflushes, so it
\* sees the rows added in this session as well as the committed ones.
existing_game(id, committed, staged) == \E r \in committed \cup staged : r.id = id

\* `if steam_appid`: None and 0 are both falsy.
Truthy(opt) == opt # None /\ opt[1] # 0

\* get_steam_player_count(steam_appid) if steam_appid else None
PlayerCountFor(steam_appid, resp) ==
    IF Truthy(steam_appid)
    THEN get_steam_player_count(steam_appid, resp)
    ELSE [raised |-> "", value |-> None, requested |-> FALSE]

\* Game(id=..., title=..., steam_appid=..., steam_player_count=...)
Game(game, steam_appid, steam_player_count) ==
    [id |-> game.id, title |-> game.title,
     steam_appid |-> steam_appid, steam_player_count |-> steam_player_count]

\* Mutant: a commit after every add.
PersistedAfterAdd_committed(committed, staged) == committed \cup staged

\* Rows persisted while the loop runs: session.add only stages.
PersistedAfterAdd(committed, staged) == committed

\* Mutant: the commit is left out.
PersistedAfterCommit_lost(committed, staged) == committed

\* Rows persisted by session.commit().
PersistedAfterCommit(committed, staged) == committed \cup staged

\* The history before the first iteration.
NoIteration ==
    [iter |-> 0, id |-> 0, stored |-> FALSE, existed |-> FALSE, resolved |-> FALSE,
     steam_appid |-> None, requested |-> FALSE, response |-> None,
     steam_player_count |-> None, staged |-> FALSE, raised |-> ""]

\* One iteration of the loop on `game`, as what it did.  stored is the ground
\* truth of the store holding the id; existed is the code's own check.
LoopBody(game, scorer, resp) ==
    LET stored == \E r \in db \cup pending : r.id = game.id
        skip == [iter |-> index, id |-> game.id, stored |-> stored, existed |-> TRUE,
                 resolved |-> FALSE, steam_appid |-> None, requested |-> FALSE,
                 response |-> None, steam_player_count |-> None,
                 staged |-> FALSE, raised |-> ""]
    IN
    IF existing_game(game.id, db, pending) THEN skip
    ELSE
      LET m == match_app_id(game.title, steam_app_dict, DefaultThreshold, scorer) IN
      IF m.raised # ""
      THEN [skip EXCEPT !.existed = FALSE, !.resolved = TRUE, !.raised = m.raised]
      ELSE
        LET c == PlayerCountFor(m.value, resp)
            got == [skip EXCEPT !.existed = FALSE, !.resolved = TRUE,
                                !.steam_appid = m.value,
                                !.requested = c.requested,
                                !.response = IF c.requested THEN Some(resp) ELSE None]
        IN
        IF c.raised # ""
        THEN [got EXCEPT !.raised = c.raised]
        ELSE [got EXCEPT !.steam_player_count = c.value, !.staged = TRUE]

\* What the environment answers during one iteration: the scores of the
\* index's keys if match_app_id is called, the player-count endpoint's answer
\* if a request is sent.  Nothing is drawn for a call that is not made.
IterationInputs(game) ==
    LET s0 == [k \in KeySet(steam_app_dict) |-> 0]
        r0 == CHOOSE r \in Responses : TRUE
        scorers == IF LoopBody(game, s0, r0).resolved
                   THEN [KeySet(steam_app_dict) -> ScoreVals] ELSE {s0}
    IN UNION {{<<sc, r>> : r \in IF LoopBody(game, sc, r0).requested
                                  THEN Responses ELSE {r0}} : sc \in scorers}

\* The history of an iteration: what it did, and the calls it made.
Record(did) ==
    /\ last' = did
    /\ resolveCalls' = resolveCalls + (IF did.resolved THEN 1 ELSE 0)
    /\ requests' = requests + (IF did.requested THEN 1 ELSE 0)

\* --------------------------------------------------------- the script
\* line 85
BuildIndex ==
    /\ pc = "build_index"
    /\ \E status \in Statuses, app_list \in SeqsUpTo(Apps, MaxApps) :
         /\ steam_app_dict' = build_steam_app_dict(status, app_list)
         /\ indexStatus' = status
    /\ pc' = "fetch_catalog"
    /\ UNCHANGED <<runs, catalogStatus, api_data, index, pending, db, error,
                   dbAtStart, last, resolveCalls, requests, prevCatalog, prevCommitted>>
    /\ UNCHANGED resolveVars

\* lines 86-88
FetchCatalog ==
    /\ pc = "fetch_catalog"
    /\ \E status \in Statuses, data \in SeqsUpTo(Games, MaxCatalog) :
         LET got == fetch_api(status, data) IN
         /\ api_data' = IF got = None THEN <<>> ELSE got[1]
         /\ catalogStatus' = status
    /\ index' = 1
    /\ pc' = "loop"
    /\ UNCHANGED <<runs, steam_app_dict, indexStatus, pending, db, error,
                   dbAtStart, last, resolveCalls, requests, prevCatalog, prevCommitted>>
    /\ UNCHANGED resolveVars

\* lines 91-121, an iteration that ends normally (continue, or session.add)
LoopStep ==
    /\ pc = "loop"
    /\ index <= Len(api_data)
    /\ \E in \in IterationInputs(api_data[index]) :
         LET did == LoopBody(api_data[index], in[1], in[2]) IN
         /\ did.raised = ""
         /\ Record(did)
         /\ pending' = IF did.staged
                       THEN pending \cup {Game(api_data[index], did.steam_appid,
                                               did.steam_player_count)}
                       ELSE pending
         /\ db' = PersistedAfterAdd(db, pending')
    /\ index' = index + 1
    /\ UNCHANGED <<pc, runs, steam_app_dict, indexStatus, catalogStatus, api_data,
                   error, dbAtStart, prevCatalog, prevCommitted>>
    /\ UNCHANGED resolveVars

\* lines 91-98, an iteration that raises: the process ends, the transaction
\* is never committed.
LoopRaise ==
    /\ pc = "loop"
    /\ index <= Len(api_data)
    /\ \E in \in IterationInputs(api_data[index]) :
         LET did == LoopBody(api_data[index], in[1], in[2]) IN
         /\ did.raised # ""
         /\ Record(did)
         /\ error' = did.raised
    /\ pc' = "aborted"
    /\ UNCHANGED <<runs, steam_app_dict, indexStatus, catalogStatus, api_data, index,
                   pending, db, dbAtStart, prevCatalog, prevCommitted>>
    /\ UNCHANGED resolveVars

\* line 124, the commit succeeds
Commit ==
    /\ pc = "loop"
    /\ index > Len(api_data)
    /\ db' = PersistedAfterCommit(db, pending)
    /\ pending' = {}
    /\ pc' = "done"
    /\ UNCHANGED <<runs, steam_app_dict, indexStatus, catalogStatus, api_data, index,
                   error, dbAtStart, last, resolveCalls, requests,
                   prevCatalog, prevCommitted>>
    /\ UNCHANGED resolveVars

\* line 124, the commit raises: the transaction is rolled back
CommitFail ==
    /\ pc = "loop"
    /\ index > Len(api_data)
    /\ pending' = {}
    /\ error' = "CommitFailure"
    /\ pc' = "aborted"
    /\ UNCHANGED <<runs, steam_app_dict, indexStatus, catalogStatus, api_data, index,
                   db, dbAtStart, last, resolveCalls, requests,
                   prevCatalog, prevCommitted>>
    /\ UNCHANGED resolveVars

\* The script is started again on the same database file (lines 35-37, 82):
\* a fresh session, nothing pending.
NextRun ==
    /\ pc \in {"done", "aborted"}
    /\ runs < MaxRuns
    /\ runs' = runs + 1
    /\ pc' = "build_index"
    /\ steam_app_dict' = <<>>
    /\ indexStatus' = 0
    /\ catalogStatus' = 0
    /\ api_data' = <<>>
    /\ index' = 1
    /\ pending' = {}
    /\ error' = ""
    /\ dbAtStart' = db
    /\ last' = NoIteration
    /\ resolveCalls' = 0
    /\ requests' = 0
    /\ prevCatalog' = IF pc = "done" THEN api_data ELSE <<>>
    /\ prevCommitted' = (pc = "done")
    /\ UNCHANGED db
    /\ UNCHANGED resolveVars

NoCall == [raised |-> "", value |-> None, scored |-> FALSE]

Init ==
    /\ pc = "build_index"
    /\ runs = 1
    /\ steam_app_dict = <<>>
    /\ indexStatus = 0
    /\ catalogStatus = 0
    /\ api_data = <<>>
    /\ index = 1
    /\ pending = {}
    /\ db = {}
    /\ error = ""
    /\ dbAtStart = {}
    /\ last = NoIteration
    /\ resolveCalls = 0
    /\ requests = 0
    /\ prevCatalog = <<>>
    /\ prevCommitted = FALSE
    /\ r_name = "X"
    /\ r_threshold = DefaultThreshold
    /\ r_score = [k \in LowerNames |-> 0]
    /\ r_result = NoCall
    /\ r_pc = "idle"

Next ==
    \/ BuildIndex
    \/ FetchCatalog
    \/ LoopStep
    \/ LoopRaise
    \/ Commit
    \/ CommitFail
    \/ NextRun

Spec == Init /\ [][Next]_vars

\* ------------------------------------------- match_app_id on its own
\* The inputs of one call of match_app_id, drawn from the bounded sets.
InitResolve ==
    /\ pc = "resolve"
    /\ runs = 1
    /\ steam_app_dict \in {AppDict(l) : l \in SeqsUpTo(Apps, MaxApps)}
    /\ indexStatus = 200
    /\ catalogStatus = 0
    /\ api_data = <<>>
    /\ index = 1
    /\ pending = {}
    /\ db = {}
    /\ error = ""
    /\ dbAtStart = {}
    /\ last = NoIteration
    /\ resolveCalls = 0
    /\ requests = 0
    /\ prevCatalog = <<>>
    /\ prevCommitted = FALSE
    /\ r_name \in Titles
    /\ r_threshold \in Thresholds
    /\ r_score \in [LowerNames -> ScoreVals]
    /\ r_result = NoCall
    /\ r_pc = "call"

Resolve ==
    /\ r_pc = "call"
    /\ r_result' = match_app_id(r_name, steam_app_dict, r_threshold, r_score)
    /\ r_pc' = "returned"
    /\ UNCHANGED <<r_name, r_threshold, r_score, steam_app_dict>>
    /\ UNCHANGED syncVars

NextResolve == Resolve

SpecResolve == InitResolve /\ [][NextResolve]_vars

\* ================================================================
\* Properties
\* ================================================================
IdsOf(rows) == {r.id : r \in rows}
CatalogIdsOf(catalog) == {catalog[j].id : j \in DOMAIN catalog}
UniqueIds(rows) == \A r1, r2 \in rows : r1.id = r2.id => r1 = r2
CatalogFetched == catalogStatus # 0
LoopErrors == {"TypeError", "JSONDecodeError", "KeyError"}
\* The first key of maximal score, in the dict's key order.
FirstBest(d, scorer) ==
    CHOOSE j \in DOMAIN d :
        /\ \A k \in DOMAIN d : scorer[d[k][1]] <= scorer[d[j][1]]
        /\ \A k \in DOMAIN d : scorer[d[k][1]] = scorer[d[j][1]] => j <= k

\* C1: when the app-list fetch answered a non-success status, a run over a
\* non-empty catalog of records not yet stored is not ended by an exception
\* in the traversal, and every row it stages has steam_appid None.
C1_EmptyIndexRunCompletes ==
    (/\ indexStatus \notin {0, 200}
     /\ CatalogFetched
     /\ api_data # <<>>
     /\ CatalogIdsOf(api_data) \cap IdsOf(dbAtStart) = {})
    => (/\ error \notin LoopErrors
        /\ \A r \in pending \cup (db \ dbAtStart) : r.steam_appid = None)

\* C2: a player-count request that fails (non-success status, malformed body,
\* no 'response', no 'player_count') gives None for that record and raises
\* nothing, so the traversal goes on.
C2_PlayerCountFailureIsAbsent ==
    (/\ last.requested
     /\ (last.response[1].status # 200 \/ last.response[1].body # "count"))
    => (/\ last.raised = ""
        /\ error \notin LoopErrors
        /\ last.staged
        /\ last.steam_player_count = None)

\* C3: a run over the catalog of the previous run, which committed, stages
\* nothing, calls match_app_id and the player-count endpoint zero times and
\* leaves the store as it was.
C3_RerunIsIdempotent ==
    (prevCommitted /\ CatalogFetched /\ api_data = prevCatalog)
    => (/\ pending = {}
        /\ resolveCalls = 0
        /\ requests = 0
        /\ db = dbAtStart
        /\ error \notin LoopErrors
        /\ (last.iter > 0 => last.existed /\ ~last.staged))

C3_Witness ==
    /\ prevCommitted
    /\ pc = "done"
    /\ api_data = prevCatalog
    /\ Len(api_data) >= 2
    /\ CatalogIdsOf(api_data) = {1, 2}
    /\ last.iter = Len(api_data)

\* C4: an iteration on a record whose id the store already holds (committed,
\* or added earlier in the run) calls neither match_app_id nor the
\* player-count endpoint, stages nothing and does not end the run.
C4_StoredIdIsSkipped ==
    [][(/\ pc = "loop"
        /\ index <= Len(api_data)
        /\ \E r \in db \cup pending : r.id = api_data[index].id)
       => (/\ pending' = pending
           /\ resolveCalls' = resolveCalls
           /\ requests' = requests
           /\ pc' = "loop"
           /\ index' = index + 1)]_vars

C4_Witness ==
    /\ last.iter > 0
    /\ last.stored
    /\ ~last.resolved
    /\ \E r \in dbAtStart : r.id = last.id /\ r.title # api_data[last.iter].title
    /\ steam_app_dict # <<>>

C5_WitnessAborted ==
    /\ pc = "aborted"
    /\ pending # {}
    /\ db = dbAtStart

\* C6: when the catalog fetch answered a non-success status the catalog is
\* empty, no iteration runs, no call is made, nothing is staged and the store
\* is the store before the run.
C6_FailedCatalogFetchIsNoOp ==
    catalogStatus \notin {0, 200}
    => (/\ api_data = <<>>
        /\ last = NoIteration
        /\ resolveCalls = 0
        /\ requests = 0
        /\ pending = {}
        /\ db = dbAtStart
        /\ error \notin LoopErrors)

C6_Witness ==
    /\ catalogStatus = 500
    /\ indexStatus = 200
    /\ steam_app_dict # <<>>
    /\ pc = "done"
    /\ db # {}

\* C7: no step removes or changes a committed row, and the committed rows
\* never hold two rows of one id.
C7_RowsImmutable == [][db \subseteq db' /\ UniqueIds(db')]_vars

\* A later run met a stored id under another title and committed.
C7_Witness ==
    /\ pc = "done"
    /\ runs >= 2
    /\ \E j \in DOMAIN api_data : \E r \in dbAtStart :
          /\ r.id = api_data[j].id
          /\ r.title # api_data[j].title
          /\ r \in db

\* C8: an iteration on a record not yet stored sends a player-count request
\* exactly when match_app_id returned an id (0 included), and stages the count
\* the request gave; with no id it stages None.
C8_RequestIffResolved ==
    (last.iter > 0 /\ ~last.stored /\ last.raised = "")
    => (/\ last.requested <=> last.steam_appid # None
        /\ last.staged
        /\ last.steam_player_count =
             IF last.requested /\ last.response[1].body = "count"
             THEN Some(last.response[1].count) ELSE None)

\* C9: when the lower-cased title is a key of the index, match_app_id returns
\* the id under that key without scoring, whatever the scores and threshold.
C9_ExactMatchWins ==
    r_pc = "returned" =>
        \A j \in DOMAIN steam_app_dict :
            steam_app_dict[j][1] = lower(r_name) =>
                r_result = [raised |-> "", value |-> Some(steam_app_dict[j][2]),
                            scored |-> FALSE]

\* An exact key, and another key of another id scoring above the threshold.
C9_Witness ==
    /\ r_pc = "returned"
    /\ r_name # lower(r_name)
    /\ \E j, k \in DOMAIN steam_app_dict :
          /\ steam_app_dict[j][1] = lower(r_name)
          /\ steam_app_dict[k][1] # lower(r_name)
          /\ steam_app_dict[k][2] # steam_app_dict[j][2]
          /\ r_score[steam_app_dict[k][1]] >= r_threshold
          /\ r_score[steam_app_dict[k][1]] > r_score[steam_app_dict[j][1]]
          /\ r_result.value = Some(steam_app_dict[j][2])

\* C10: when the lower-cased title is no key of a non-empty index,
\* match_app_id returns the id of the first key of maximal score if that score
\* is at least the threshold, and None if it is below.
C10_ThresholdAndTieBreak ==
    (/\ r_pc = "returned"
     /\ steam_app_dict # <<>>
     /\ \A j \in DOMAIN steam_app_dict : steam_app_dict[j][1] # lower(r_name))
    => LET b == FirstBest(steam_app_dict, r_score)
           best == r_score[steam_app_dict[b][1]]
       IN /\ r_result.raised = ""
          /\ r_result.value = IF best >= r_threshold
                              THEN Some(steam_app_dict[b][2]) ELSE None

\* Threshold 90, two keys of different ids tied at 90: the first one is returned.
C10_Witness ==
    /\ r_pc = "returned"
    /\ r_threshold = 90
    /\ Len(steam_app_dict) = 2
    /\ \A j \in DOMAIN steam_app_dict :
          /\ steam_app_dict[j][1] # lower(r_name)
          /\ r_score[steam_app_dict[j][1]] = 90
    /\ steam_app_dict[1][2] # steam_app_dict[2][2]
    /\ r_result.value = Some(steam_app_dict[1][2])

\* Threshold 90, best score 89: None.
C10_WitnessBelow ==
    /\ r_pc = "returned"
    /\ r_threshold = 90
    /\ steam_app_dict # <<>>
    /\ \A j \in DOMAIN steam_app_dict : steam_app_dict[j][1] # lower(r_name)
    /\ r_score[steam_app_dict[FirstBest(steam_app_dict, r_score)][1]] = 89
    /\ r_result.value = None

====
